---- MODULE Spec2Model ----
(***************************************************************************)
(* Model of the email dispatch worker: EmailConsumer.process_message and   *)
(* its helpers (consumer.py), with the CircuitBreaker and the RateLimiter  *)
(* (utils.py) and the EmailLog audit table (models.py).                    *)
(*                                                                         *)
(* One worker processes one delivery at a time (basic_qos prefetch 1).     *)
(* process_message is modelled block by block: pc names the block of the   *)
(* handler that runs next, and no other delivery starts before the current *)
(* one has been acked or nacked.  Every collaborator call (rate store,     *)
(* audit store, user lookup, template render, status update, mail send,    *)
(* dead-letter publish) draws its outcome from the outcomes the call can   *)
(* have: a value, an absent value, or a raised exception.                  *)
(***************************************************************************)
EXTENDS Integers, Sequences, FiniteSets, TLC

(***************************************************************************)
(* Bounds of the model.                                                    *)
(***************************************************************************)
MaxPublished == 2
MaxDeliveries == 3
MaxChain == 4
MaxTag == 4
EMAIL_RATE_LIMIT == 2
MaxFailures == 5
MaxClock == 64
MaxWorkers == 2
MaxCalls == 5
MaxHour == 1
MaxAsked == 2
MaxAsks == 5

(***************************************************************************)
(* Program constants.                                                      *)
(***************************************************************************)
FailureThreshold == 3
RecoveryTimeout == 30
MaxRetries == 3
SendAttempts == 3
RetryCleanupSize == 1000
SecondsPerHour == 3600
ConnectRetries == 5
NoTime == -1

Tags == 1..MaxTag

(***************************************************************************)
(* Strings.  TLC has no operations on the characters of a string, so the   *)
(* text of every error message the worker can see is tabulated here, and   *)
(* lower() and the substring test of _handle_failure are computed on the   *)
(* characters.                                                             *)
(***************************************************************************)
Chars(s) ==
    CASE s = "Rate limit exceeded for user"
         -> <<"R","a","t","e"," ","l","i","m","i","t"," ","e","x","c","e","e","d","e","d"," ","f","o","r"," ","u","s","e","r">>
      [] s = "Circuit breaker is OPEN - Email service unavailable"
         -> <<"C","i","r","c","u","i","t"," ","b","r","e","a","k","e","r"," ","i","s"," ","O","P","E","N"," ","-"," ","E","m","a","i","l"," ","s","e","r","v","i","c","e"," ","u","n","a","v","a","i","l","a","b","l","e">>
      [] s = "Missing required field: user_id"
         -> <<"M","i","s","s","i","n","g"," ","r","e","q","u","i","r","e","d"," ","f","i","e","l","d",":"," ","u","s","e","r","_","i","d">>
      [] s = "Missing required field: template_code"
         -> <<"M","i","s","s","i","n","g"," ","r","e","q","u","i","r","e","d"," ","f","i","e","l","d",":"," ","t","e","m","p","l","a","t","e","_","c","o","d","e">>
      [] s = "Missing required field: variables"
         -> <<"M","i","s","s","i","n","g"," ","r","e","q","u","i","r","e","d"," ","f","i","e","l","d",":"," ","v","a","r","i","a","b","l","e","s">>
      [] s = "Failed to get user data"
         -> <<"F","a","i","l","e","d"," ","t","o"," ","g","e","t"," ","u","s","e","r"," ","d","a","t","a">>
      [] s = "User has no email address"
         -> <<"U","s","e","r"," ","h","a","s"," ","n","o"," ","e","m","a","i","l"," ","a","d","d","r","e","s","s">>
      [] s = "Failed to render email template"
         -> <<"F","a","i","l","e","d"," ","t","o"," ","r","e","n","d","e","r"," ","e","m","a","i","l"," ","t","e","m","p","l","a","t","e">>
      [] s = "All retry attempts failed"
         -> <<"A","l","l"," ","r","e","t","r","y"," ","a","t","t","e","m","p","t","s"," ","f","a","i","l","e","d">>
      [] s = "Connection timed out"
         -> <<"C","o","n","n","e","c","t","i","o","n"," ","t","i","m","e","d"," ","o","u","t">>
      [] s = "Mailbox Disabled"
         -> <<"M","a","i","l","b","o","x"," ","D","i","s","a","b","l","e","d">>
      [] s = "permanent"
         -> <<"p","e","r","m","a","n","e","n","t">>
      [] s = "disabled"
         -> <<"d","i","s","a","b","l","e","d">>
      [] s = "no email"
         -> <<"n","o"," ","e","m","a","i","l">>
      [] OTHER -> << >>

UpperCase == <<"A","B","C","D","E","F","G","H","I","J","K","L","M",
               "N","O","P","Q","R","S","T","U","V","W","X","Y","Z">>
LowerCase == <<"a","b","c","d","e","f","g","h","i","j","k","l","m",
               "n","o","p","q","r","s","t","u","v","w","x","y","z">>

LowerChar(c) ==
    IF \E i \in 1..Len(UpperCase) : UpperCase[i] = c
    THEN LowerCase[CHOOSE i \in 1..Len(UpperCase) : UpperCase[i] = c]
    ELSE c

\* str.lower()
Lower(cs) == [i \in 1..Len(cs) |-> LowerChar(cs[i])]

\* term in text
Contains(text, term) ==
    \E i \in 1..(Len(text) - Len(term) + 1) :
        SubSeq(text, i, i + Len(term) - 1) = term

DlqTerms == {"permanent", "disabled", "no email"}

\* line 236 without .lower(): the terms are looked for in the text as it is
MatchesDlqPolicy_CaseSensitive(err) ==
    \E term \in DlqTerms : Contains(Chars(err), Chars(term))

\* any(term in error_message.lower() for term in [...])
MatchesDlqPolicy(err) ==
    \E term \in DlqTerms : Contains(Lower(Chars(err)), Chars(term))

(***************************************************************************)
(* CircuitBreaker (utils.py).  A breaker is a record of the three fields   *)
(* __init__ sets; t is the value time.time() returns at the call.          *)
(***************************************************************************)
NewBreaker ==
    [state |-> "CLOSED", failure_count |-> 0, last_failure_time |-> NoTime]

\* can_execute: the answer and the breaker after the call
CanExecute(cb, t) ==
    IF cb.state = "CLOSED" THEN [ok |-> TRUE, cb |-> cb]
    ELSE IF cb.state = "OPEN" THEN
        IF t - cb.last_failure_time > RecoveryTimeout
        THEN [ok |-> TRUE, cb |-> [cb EXCEPT !.state = "HALF_OPEN"]]
        ELSE [ok |-> FALSE, cb |-> cb]
    ELSE [ok |-> TRUE, cb |-> cb]

\* record_success without line 176: recovery keeps the failure count
RecordSuccess_KeepCount(cb) ==
    IF cb.state = "HALF_OPEN"
    THEN [cb EXCEPT !.state = "CLOSED"]
    ELSE IF cb.state = "CLOSED" /\ cb.failure_count > 0
    THEN [cb EXCEPT !.failure_count =
                IF cb.failure_count - 1 > 0 THEN cb.failure_count - 1 ELSE 0]
    ELSE cb

\* record_success whose first test is "state != 'CLOSED'": a success also
\* closes an OPEN breaker
RecordSuccess_ClosesOpen(cb) ==
    IF cb.state # "CLOSED"
    THEN [cb EXCEPT !.state = "CLOSED", !.failure_count = 0]
    ELSE IF cb.state = "CLOSED" /\ cb.failure_count > 0
    THEN [cb EXCEPT !.failure_count =
                IF cb.failure_count - 1 > 0 THEN cb.failure_count - 1 ELSE 0]
    ELSE cb

\* record_success that clears the count of a CLOSED breaker at once
RecordSuccess_ClearsClosed(cb) ==
    IF cb.state = "HALF_OPEN"
    THEN [cb EXCEPT !.state = "CLOSED", !.failure_count = 0]
    ELSE IF cb.state = "CLOSED" /\ cb.failure_count > 0
    THEN [cb EXCEPT !.failure_count = 0]
    ELSE cb

\* record_success without lines 178-180: a success on a CLOSED breaker
\* leaves the failure count as it is
RecordSuccess_NoDecrement(cb) ==
    IF cb.state = "HALF_OPEN"
    THEN [cb EXCEPT !.state = "CLOSED", !.failure_count = 0]
    ELSE cb

RecordSuccess(cb) ==
    IF cb.state = "HALF_OPEN"
    THEN [cb EXCEPT !.state = "CLOSED", !.failure_count = 0]
    ELSE IF cb.state = "CLOSED" /\ cb.failure_count > 0
    THEN [cb EXCEPT !.failure_count =
                IF cb.failure_count - 1 > 0 THEN cb.failure_count - 1 ELSE 0]
    ELSE cb

\* record_failure with > for >= at line 193: one failure more is needed
RecordFailure_Strict(cb, t) ==
    LET c == [cb EXCEPT !.failure_count = cb.failure_count + 1,
                        !.last_failure_time = t]
    IN  IF c.state = "HALF_OPEN" THEN [c EXCEPT !.state = "OPEN"]
        ELSE IF c.state = "CLOSED" /\ c.failure_count > FailureThreshold
        THEN [c EXCEPT !.state = "OPEN"]
        ELSE c

\* record_failure without line 185: the time of the failure is not kept
RecordFailure_NoStamp(cb, t) ==
    LET c == [cb EXCEPT !.failure_count = cb.failure_count + 1]
    IN  IF c.state = "HALF_OPEN" THEN [c EXCEPT !.state = "OPEN"]
        ELSE IF c.state = "CLOSED" /\ c.failure_count >= FailureThreshold
        THEN [c EXCEPT !.state = "OPEN"]
        ELSE c

RecordFailure(cb, t) ==
    LET c == [cb EXCEPT !.failure_count = cb.failure_count + 1,
                        !.last_failure_time = t]
    IN  IF c.state = "HALF_OPEN" THEN [c EXCEPT !.state = "OPEN"]
        ELSE IF c.state = "CLOSED" /\ c.failure_count >= FailureThreshold
        THEN [c EXCEPT !.state = "OPEN"]
        ELSE c

(***************************************************************************)
(* RateLimiter (utils.py).  The cache maps a rate-limit key, here the pair *)
(* of the user id and the hour bucket, to its counter; a key that is not   *)
(* in the cache reads as the default 0.                                    *)
(***************************************************************************)
CurrentHour(t) == t \div SecondsPerHour

RateKey(user_id, t) == <<user_id, CurrentHour(t)>>

\* cache.get(key, 0)
CacheGet(c, key) == IF key \in DOMAIN c THEN c[key] ELSE 0

\* cache.set(key, value, timeout)
CacheSet(c, key, value) ==
    [k \in DOMAIN c \cup {key} |-> IF k = key THEN value ELSE c[k]]

\* Exceeded with > for >=: one call more is let through
Exceeded_Strict(current_count) == current_count > EMAIL_RATE_LIMIT

\* Exceeded without the test of line 208: every call is let through
Exceeded_Never(current_count) == FALSE

\* line 208: current_count >= settings.EMAIL_RATE_LIMIT
Exceeded(current_count) == current_count >= EMAIL_RATE_LIMIT

\* check_rate_limit: the answer and the cache after the call
CheckRateLimit(c, user_id, t) ==
    LET key == RateKey(user_id, t)
        current_count == CacheGet(c, key)
    IN  IF Exceeded(current_count)
        THEN [ok |-> FALSE, cache |-> c]
        ELSE [ok |-> TRUE, cache |-> CacheSet(c, key, current_count + 1)]

\* get_rate_limit_info that forgot to subtract the current count
GetRateLimitInfo_RemainingIsLimit(c, user_id, t) ==
    [current_count |-> CacheGet(c, RateKey(user_id, t)),
     limit |-> EMAIL_RATE_LIMIT,
     remaining |-> EMAIL_RATE_LIMIT]

\* get_rate_limit_info: the dict it returns
GetRateLimitInfo(c, user_id, t) ==
    LET current_count == CacheGet(c, RateKey(user_id, t))
    IN  [current_count |-> current_count,
         limit |-> EMAIL_RATE_LIMIT,
         remaining |-> IF EMAIL_RATE_LIMIT - current_count > 0
                       THEN EMAIL_RATE_LIMIT - current_count ELSE 0]

(***************************************************************************)
(* EmailConsumer._should_retry: the answer and retry_counts after the call *)
(***************************************************************************)
ShouldRetry(rc, tag) ==
    LET rc0 == IF tag \in DOMAIN rc THEN rc
               ELSE [k \in DOMAIN rc \cup {tag} |->
                        IF k = tag THEN 0 ELSE rc[k]]
    IN  IF rc0[tag] < MaxRetries
        THEN [ok |-> TRUE, rc |-> [rc0 EXCEPT ![tag] = rc0[tag] + 1]]
        ELSE [ok |-> FALSE,
              rc |-> IF Cardinality(DOMAIN rc0) > RetryCleanupSize
                     THEN << >> ELSE rc0]

(***************************************************************************)
(* Message bodies.  kind is what json.loads makes of the body: "bad" (it   *)
(* raises), "null" (a falsy value that is no dict), "list" (a truthy value *)
(* that is no dict) or "dict", with the keys the dict carries.             *)
(***************************************************************************)
RequiredFields == <<"user_id", "template_code", "variables">>

AllFields == {"request_id", "user_id", "template_code", "variables"}

\* the bodies published: three that are no dict, the empty dict, a complete
\* message, and a message that lacks one of the required fields
Bodies ==
    {[kind |-> "bad", fields |-> {}],
     [kind |-> "null", fields |-> {}],
     [kind |-> "list", fields |-> {}]}
    \cup
    {[kind |-> "dict", fields |-> fs] :
        fs \in {{}, AllFields}
               \cup {AllFields \ {RequiredFields[i]} : i \in 1..3}}

NoMsg == [kind |-> "none", fields |-> {}]

\* bool(message), for the message json.loads returned
Truthy(m) == m.kind = "list" \/ (m.kind = "dict" /\ m.fields # {})

\* MissingField with an empty required_fields list: nothing is validated
MissingField_None(m) == ""

\* MissingField with a required_fields list that forgot 'variables'
MissingField_TwoFields(m) ==
    IF \E i \in 1..2 : RequiredFields[i] \notin m.fields
    THEN RequiredFields[CHOOSE i \in 1..2 :
            /\ RequiredFields[i] \notin m.fields
            /\ \A j \in 1..(i - 1) : RequiredFields[j] \in m.fields]
    ELSE ""

\* the first required field the message lacks, "" when it has them all
MissingField(m) ==
    IF \E i \in 1..Len(RequiredFields) : RequiredFields[i] \notin m.fields
    THEN RequiredFields[CHOOSE i \in 1..Len(RequiredFields) :
            /\ RequiredFields[i] \notin m.fields
            /\ \A j \in 1..(i - 1) : RequiredFields[j] \in m.fields]
    ELSE ""

MissingFieldError(f) ==
    CASE f = "user_id" -> "Missing required field: user_id"
      [] f = "template_code" -> "Missing required field: template_code"
      [] f = "variables" -> "Missing required field: variables"

\* str(uuid.uuid4()): an id no earlier delivery has seen
Uuids == <<"uuid-1", "uuid-2", "uuid-3", "uuid-4", "uuid-5", "uuid-6",
           "uuid-7", "uuid-8">>

(***************************************************************************)
(* Calls of a block of process_message, written in the order the code      *)
(* makes them.  The trace of a delivery is the sequence of the calls made  *)
(* while it was processed.                                                 *)
(***************************************************************************)
SaveEv(status, error_message) == <<"save", status, error_message>>

StatusEv(request_id, status, error) == <<"status", request_id, status, error>>

DlqEv(error) == <<"dlq", error>>

\* DeliveredScript without line 165: the success is not reported to the
\* breaker
DeliveredScript_NoRecordSuccess(request_id) ==
    << SaveEv("delivered", ""),
       StatusEv(request_id, "delivered", ""),
       <<"ack">> >>

\* lines 156-168: the send succeeded
DeliveredScript(request_id) ==
    << SaveEv("delivered", ""),
       StatusEv(request_id, "delivered", ""),
       <<"record_success">>,
       <<"ack">> >>

OptOutMessage == "User disabled email notifications"

\* OptOutScript routed through _handle_failure: its error text holds
\* "disabled", so the message is dead-lettered and the breaker is charged
OptOutScript_ViaHandleFailure(request_id) ==
    << SaveEv("failed", OptOutMessage),
       StatusEv(request_id, "failed", OptOutMessage),
       <<"record_failure">>,
       DlqEv(OptOutMessage),
       <<"ack">> >>

\* lines 122-129: the user has disabled email notifications
OptOutScript(request_id) ==
    << SaveEv("failed", OptOutMessage),
       StatusEv(request_id, "failed", OptOutMessage),
       <<"ack">> >>

\* _handle_failure without line 229: the failed status is set on the object
\* and never saved
HandleFailureScript_NoSave(has_log, error_message, request_id, message) ==
    << StatusEv(request_id, "failed", error_message), <<"record_failure">> >>
    \o (IF Truthy(message) /\ MatchesDlqPolicy(error_message)
        THEN << DlqEv(error_message) >> ELSE << >>)
    \o << <<"ack">> >>

\* _handle_failure with line 239 under an else of the dead-letter test: a
\* dead-lettered message is not acknowledged
HandleFailureScript_AckUnlessDlq(has_log, error_message, request_id, message) ==
    (IF has_log THEN << SaveEv("failed", error_message) >> ELSE << >>)
    \o << StatusEv(request_id, "failed", error_message), <<"record_failure">> >>
    \o (IF Truthy(message) /\ MatchesDlqPolicy(error_message)
        THEN << DlqEv(error_message) >> ELSE << <<"ack">> >>)

\* _handle_failure(email_log, error_message, request_id, delivery_tag, ch, message)
HandleFailureScript(has_log, error_message, request_id, message) ==
    (IF has_log THEN << SaveEv("failed", error_message) >> ELSE << >>)
    \o << StatusEv(request_id, "failed", error_message), <<"record_failure">> >>
    \o (IF Truthy(message) /\ MatchesDlqPolicy(error_message)
        THEN << DlqEv(error_message) >> ELSE << >>)
    \o << <<"ack">> >>

\* ExceptScript with line 183 indented under "if message:": a body that
\* did not parse is never acknowledged
ExceptScript_AckUnderIf(message, retry, exc) ==
    << <<"record_failure">> >>
    \o (IF Truthy(message) /\ retry
        THEN << <<"nack">> >>
        ELSE IF Truthy(message) THEN << DlqEv(exc), <<"ack">> >> ELSE << >>)

\* lines 172-183: the except clause; retry is what _should_retry answered
\* (FALSE when it was not called), exc is str(e)
ExceptScript(message, retry, exc) ==
    << <<"record_failure">> >>
    \o (IF Truthy(message) /\ retry
        THEN << <<"nack">> >>
        ELSE (IF Truthy(message) THEN << DlqEv(exc) >> ELSE << >>)
             \o << <<"ack">> >>)

\* the calls of a script that can raise: the audit store and the status update
CanRaise(e) == e[1] \in {"save", "status"}

RaisePoints(script) == {i \in DOMAIN script : CanRaise(script[i])}

ExcOf(e) == IF e[1] = "save" THEN "DatabaseError" ELSE "StatusServiceError"

\* the calls of script that took effect when its k-th call raised (k = 0:
\* none raised)
Executed(script, k) == IF k = 0 THEN script ELSE SubSeq(script, 1, k - 1)

\* what the delivery's trace gains: a status update that raised was still
\* called; a save that raised wrote nothing
Traced(script, k) ==
    IF k = 0 THEN script
    ELSE SubSeq(script, 1, k - 1)
         \o (IF script[k][1] = "status" THEN << script[k] >> ELSE << >>)
         \o << <<"raise", ExcOf(script[k])>> >>

Has(tr, op) == \E i \in DOMAIN tr : tr[i][1] = op

Count(tr, op) == Cardinality({i \in DOMAIN tr : tr[i][1] = op})

\* email_log.save(): the row of request_id takes the saved status and error
ApplySave(d, request_id, done) ==
    IF Has(done, "save")
    THEN LET e == done[CHOOSE i \in DOMAIN done : done[i][1] = "save"]
         IN  [d EXCEPT ![request_id] =
                 [status |-> e[2], error_message |-> e[3]]]
    ELSE d

ApplyBreaker(b, done, t) ==
    IF Has(done, "record_success") THEN RecordSuccess(b)
    ELSE IF Has(done, "record_failure") THEN RecordFailure(b, t)
    ELSE b

\* _send_to_dlq swallows its own failure: a publish that failed leaves a
\* "dlq_failed" call in the trace and changes nothing else
SendToDlq(tr, published) ==
    [i \in DOMAIN tr |->
        IF tr[i][1] = "dlq" /\ ~published
        THEN <<"dlq_failed", tr[i][2]>> ELSE tr[i]]

(***************************************************************************)
(* Direct callers.  The breaker and the rate limiter are also driven       *)
(* call by call, without the pipeline around them: the breaker by one      *)
(* caller, the rate limiter by the workers that share the cache.           *)
(***************************************************************************)
\* no call was made on the breaker yet
NoCall == [op |-> "", pre |-> NewBreaker, t |-> 0, ok |-> TRUE]

\* a run of record_failure calls: the breaker it started from, the failures
\* recorded so far, and the failure of the run at which the breaker went
\* from CLOSED to OPEN (0: it has not)
NewRun(b) == [start |-> b, length |-> 0, opened_at |-> 0]

\* the worker processes that share the cache
Workers == 1..MaxWorkers

\* a worker that is not inside check_rate_limit
NoCaller == [pc |-> "out", key |-> << >>, current_count |-> 0]

\* no call of the rate limiter has returned yet; before is the cache the
\* call found at its last step
NoRateCall ==
    [op |-> "", key |-> << >>, before |-> << >>, ok |-> TRUE,
     info |-> [current_count |-> 0, limit |-> 0, remaining |-> 0]]

\* the delivery tags _should_retry is asked about: two tags, and a tag
\* above every tag of a table filled beyond RetryCleanupSize
AskedTags == (1..MaxAsked) \cup {RetryCleanupSize + 2}

\* retry_counts after RetryCleanupSize + 1 deliveries, each under a tag of
\* its own, each the first under its tag to fail: every tag counts 1
FilledRetryCounts == [tag \in 1..(RetryCleanupSize + 1) |-> 1]

\* before Command.handle has run
NoBoot ==
    [pc |-> "handle", attempt |-> 0, connection |-> FALSE,
     errors |-> << >>, sleeps |-> << >>, raised |-> "", outcome |-> ""]

(***************************************************************************)
(* State.                                                                  *)
(***************************************************************************)
VARIABLES
    now,            \* time.time()
    cb,             \* self.circuit_breaker
    cache,          \* the rate counters of the shared cache
    retry_counts,   \* self.retry_counts
    db,             \* the email_logs table, request_id -> row
    queued,         \* the message waiting in email.queue, NoMsg when none
    requeues,       \* how often that message has been nacked with requeue
    published,      \* messages published so far
    deliveries,     \* calls of process_message so far
    usedTags,       \* the delivery tags of the deliveries so far
    limits,         \* how many messages and deliveries the run may see
    fresh,          \* every delivery so far carried a tag of its own
    pc,             \* the block of process_message that runs next
    cur,            \* the locals of the running process_message
    trace,          \* the calls the running process_message has made
    sent,           \* request_id -> the mail sends that succeeded for it
    last_call,      \* the last call made on the breaker, by a direct caller
    run,            \* the failures recorded since the last record_success
    callers,        \* the calls of check_rate_limit under way, per worker
    results,        \* hour bucket -> what the calls keyed to it returned
    overlapped,     \* the hour buckets in which two calls overlapped
    last_rate,      \* the last call of the rate limiter that returned
    asked,          \* delivery tag -> what _should_retry answered, in order
    boot            \* the start of the worker: connect and start_consuming

vars == <<now, cb, cache, retry_counts, db, queued, requeues,
          published, deliveries, usedTags, limits, fresh, pc, cur, trace,
          sent, last_call, run, callers, results, overlapped, last_rate,
          asked, boot>>

\* what process_message and the transport own
consumerVars == <<retry_counts, db, queued, requeues, published, deliveries,
                  usedTags, limits, fresh, pc, cur, trace, sent>>

\* the records kept of direct calls on the breaker
breakerCallVars == <<last_call, run>>

\* the records kept of direct calls on the rate limiter
rateCallVars == <<callers, results, overlapped, last_rate>>

\* the record kept of direct calls of _should_retry
retryCallVars == <<asked>>

\* the start of the worker process
startVars == <<boot>>

NoCur ==
    [tag |-> 0, message |-> NoMsg, body |-> NoMsg, request_id |-> "",
     user_id |-> "None", has_log |-> FALSE, duplicate |-> FALSE,
     gate |-> "",
     recipient_email |-> "", error |-> "", attempt |-> 0, exc |-> ""]

\* the state after EmailConsumer() was constructed, before any delivery
Constructed ==
    /\ now = 0
    /\ cb = NewBreaker
    /\ cache = << >>
    /\ retry_counts = << >>
    /\ db = << >>
    /\ queued = NoMsg
    /\ requeues = 0
    /\ published = 0
    /\ deliveries = 0
    /\ usedTags = {}
    /\ fresh = TRUE
    /\ pc = "idle"
    /\ cur = NoCur
    /\ trace = << >>
    /\ sent = << >>
    /\ last_call = NoCall
    /\ run = NewRun(NewBreaker)
    /\ callers = [w \in Workers |-> NoCaller]
    /\ results = << >>
    /\ overlapped = {}
    /\ last_rate = NoRateCall
    /\ asked = [tag \in AskedTags |-> << >>]
    /\ boot = NoBoot

\* up to MaxPublished messages and MaxDeliveries deliveries in all
Init ==
    /\ Constructed
    /\ limits = [pub |-> MaxPublished, del |-> MaxDeliveries]

\* one message, delivered up to MaxChain times
InitRedelivery ==
    /\ Constructed
    /\ limits = [pub |-> 1, del |-> MaxChain]

Idle == pc = "idle"

\* process_message returns to the transport
Return ==
    /\ pc = "done"
    /\ pc' = "idle"
    /\ cur' = NoCur
    /\ trace' = << >>
    /\ UNCHANGED <<now, cb, cache, retry_counts, db, queued, requeues,
                   published, deliveries, usedTags, limits, fresh>>
    /\ UNCHANGED <<sent, breakerCallVars, rateCallVars, retryCallVars,
                   startVars>>

\* a producer publishes a message to email.queue
Publish(body) ==
    /\ Idle
    /\ queued = NoMsg
    /\ published < limits.pub
    /\ queued' = body
    /\ requeues' = 0
    /\ published' = published + 1
    /\ UNCHANGED <<now, cb, cache, retry_counts, db, deliveries,
                   usedTags, limits, fresh, pc, cur, trace>>
    /\ UNCHANGED <<sent, breakerCallVars, rateCallVars, retryCallVars,
                   startVars>>

\* Time passes between two deliveries.  The worker reads the clock to stamp
\* a failure and to measure the time since the last failure of an OPEN
\* breaker, so only the time that passes while the breaker is OPEN shows,
\* and it shows as more, as much or less than the recovery timeout: the
\* clock moves on to a time that far from the last failure.
Tick(elapsed) ==
    /\ Idle
    /\ cb.state = "OPEN"
    /\ now < cb.last_failure_time + elapsed
    /\ now' = cb.last_failure_time + elapsed
    /\ UNCHANGED <<cb, cache, retry_counts, db, queued, requeues, published,
                   deliveries, usedTags, limits, fresh, pc, cur, trace>>
    /\ UNCHANGED <<sent, breakerCallVars, rateCallVars, retryCallVars,
                   startVars>>

\* raise exc inside the try block: control goes to the except clause
Raise(exc) ==
    /\ pc' = "except"
    /\ trace' = Append(trace, <<"raise", exc>>)

\* a gate rejects: _handle_failure(email_log, error_msg, ...) is called
Fail(gate, error_msg) ==
    /\ pc' = "fail"
    /\ cur' = [cur EXCEPT !.gate = gate, !.error = error_msg]

\* Delivery tags are opaque handles: the transport hands over a tag it has
\* used before, or the next tag it has not used yet
NextTags(used) ==
    used \cup {t \in Tags : \A u \in Tags : u < t => u \in used}

\* process_message, lines 74-84: the transport hands over the queued message
\* under delivery tag tag; the body is parsed and the ids are read
Receive(tag) ==
    /\ Idle
    /\ tag \in NextTags(usedTags)
    /\ queued # NoMsg
    /\ deliveries < limits.del
    /\ deliveries' = deliveries + 1
    /\ usedTags' = usedTags \cup {tag}
    /\ fresh' = (fresh /\ tag \notin usedTags)
    /\ queued' = NoMsg
    /\ IF queued.kind = "bad"
       THEN /\ cur' = [NoCur EXCEPT !.tag = tag, !.body = queued,
                                    !.exc = "JSONDecodeError"]
            /\ pc' = "except"
            /\ trace' = << <<"raise", "JSONDecodeError">> >>
       ELSE IF queued.kind # "dict"
       THEN /\ cur' = [NoCur EXCEPT !.tag = tag, !.body = queued,
                                    !.message = queued,
                                    !.exc = "AttributeError"]
            /\ pc' = "except"
            /\ trace' = << <<"raise", "AttributeError">> >>
       ELSE /\ cur' = [NoCur EXCEPT
                         !.tag = tag, !.body = queued, !.message = queued,
                         !.request_id =
                             IF "request_id" \in queued.fields THEN "r1"
                             ELSE Uuids[deliveries + 1],
                         !.user_id =
                             IF "user_id" \in queued.fields THEN "u1"
                             ELSE "None"]
            /\ pc' = "rate"
            /\ trace' = << >>
    /\ UNCHANGED <<now, cb, cache, retry_counts, db, requeues,
                   published, limits>>
    /\ UNCHANGED <<sent, breakerCallVars, rateCallVars, retryCallVars,
                   startVars>>

\* lines 86-90
RateCheck ==
    /\ pc = "rate"
    /\ \E raises \in BOOLEAN :
         IF raises
         THEN /\ Raise("CacheError")
              /\ cur' = [cur EXCEPT !.exc = "CacheError"]
              /\ UNCHANGED cache
         ELSE LET r == CheckRateLimit(cache, cur.user_id, now)
              IN  /\ cache' = r.cache
                  /\ trace' = Append(trace, <<"check_rate_limit", r.ok>>)
                  /\ IF r.ok
                     THEN pc' = "breaker" /\ UNCHANGED cur
                     ELSE Fail("rate", "Rate limit exceeded for user")
    /\ UNCHANGED <<now, cb, retry_counts, db, queued, requeues,
                   published, deliveries, usedTags, limits, fresh>>
    /\ UNCHANGED <<sent, breakerCallVars, rateCallVars, retryCallVars,
                   startVars>>

\* lines 92-96
BreakerCheck ==
    /\ pc = "breaker"
    /\ LET r == CanExecute(cb, now)
       IN  /\ cb' = r.cb
           /\ trace' = Append(trace, <<"can_execute", cb.state, r.ok>>)
           /\ IF r.ok
              THEN pc' = "validate" /\ UNCHANGED cur
              ELSE Fail("breaker",
                        "Circuit breaker is OPEN - Email service unavailable")
    /\ UNCHANGED <<now, cache, retry_counts, db, queued, requeues,
                   published, deliveries, usedTags, limits, fresh>>
    /\ UNCHANGED <<sent, breakerCallVars, rateCallVars, retryCallVars,
                   startVars>>

\* lines 98-104
ValidateFields ==
    /\ pc = "validate"
    /\ LET f == MissingField(cur.message)
       IN  IF f # ""
           THEN Fail("validate", MissingFieldError(f))
           ELSE pc' = "create" /\ UNCHANGED cur
    /\ UNCHANGED <<now, cb, cache, retry_counts, db, queued, requeues,
                   published, deliveries, usedTags, limits, fresh, trace>>
    /\ UNCHANGED <<sent, breakerCallVars, rateCallVars, retryCallVars,
                   startVars>>

\* request_id without unique=True: no insert is refused
RequestIdTaken_NotUnique(d, request_id) == FALSE

\* request_id = CharField(unique=True): the table holds a row with this id,
\* and an insert of another is refused
RequestIdTaken(d, request_id) == request_id \in DOMAIN d

\* lines 106-112: EmailLog.objects.create; request_id is unique (models.py),
\* so a second row for the same request_id raises IntegrityError
CreateLog ==
    /\ pc = "create"
    /\ \E raises \in BOOLEAN :
         IF RequestIdTaken(db, cur.request_id)
         THEN /\ Raise("IntegrityError")
              /\ cur' = [cur EXCEPT !.exc = "IntegrityError",
                                    !.duplicate = TRUE]
              /\ UNCHANGED db
         ELSE IF raises
         THEN /\ Raise("DatabaseError")
              /\ cur' = [cur EXCEPT !.exc = "DatabaseError"]
              /\ UNCHANGED db
         ELSE /\ db' = [k \in DOMAIN db \cup {cur.request_id} |->
                          IF k = cur.request_id
                          THEN [status |-> "pending", error_message |-> ""]
                          ELSE db[k]]
              /\ cur' = [cur EXCEPT !.has_log = TRUE]
              /\ trace' = Append(trace, <<"create">>)
              /\ pc' = "user"
    /\ UNCHANGED <<now, cb, cache, retry_counts, queued, requeues,
                   published, deliveries, usedTags, limits, fresh>>
    /\ UNCHANGED <<sent, breakerCallVars, rateCallVars, retryCallVars,
                   startVars>>

\* what HTTPClient.get_user_data can return: no data, or the user's
\* email_notifications flag (True when the key is absent) and address
UserData == [email_notifications : BOOLEAN, email : {"a@x.com", ""}]

\* lines 114-135
GetUser ==
    /\ pc = "user"
    /\ \/ /\ Raise("UserServiceError")
          /\ cur' = [cur EXCEPT !.exc = "UserServiceError"]
       \/ /\ Fail("user", "Failed to get user data")
          /\ trace' = Append(trace, <<"get_user_data", FALSE>>)
       \/ \E user_data \in UserData :
            /\ trace' = Append(trace, <<"get_user_data", TRUE>>)
            /\ IF ~user_data.email_notifications
               THEN pc' = "optout" /\ cur' = [cur EXCEPT !.gate = "optout"]
               ELSE IF user_data.email = ""
               THEN Fail("recipient", "User has no email address")
               ELSE /\ pc' = "render"
                    /\ cur' = [cur EXCEPT
                                 !.recipient_email = user_data.email]
    /\ UNCHANGED <<now, cb, cache, retry_counts, db, queued, requeues,
                   published, deliveries, usedTags, limits, fresh>>
    /\ UNCHANGED <<sent, breakerCallVars, rateCallVars, retryCallVars,
                   startVars>>

\* lines 137-153: render_template returns nothing, a template, or a dict
\* without the rendered_subject key (KeyError at line 151), or raises
Render ==
    /\ pc = "render"
    /\ \/ /\ Raise("TemplateServiceError")
          /\ cur' = [cur EXCEPT !.exc = "TemplateServiceError"]
       \/ /\ Fail("render", "Failed to render email template")
          /\ trace' = Append(trace, <<"render_template", FALSE>>)
       \/ /\ pc' = "except"
          /\ trace' = trace \o << <<"render_template", TRUE>>,
                                  <<"raise", "KeyError">> >>
          /\ cur' = [cur EXCEPT !.exc = "KeyError"]
       \/ /\ pc' = "send"
          /\ trace' = Append(trace, <<"render_template", TRUE>>)
          /\ cur' = [cur EXCEPT !.attempt = 0, !.error = ""]
    /\ UNCHANGED <<now, cb, cache, retry_counts, db, queued, requeues,
                   published, deliveries, usedTags, limits, fresh>>
    /\ UNCHANGED <<sent, breakerCallVars, rateCallVars, retryCallVars,
                   startVars>>

\* the error texts a failed send can carry ("" : an exception without text)
SendErrors == {"Connection timed out", "Mailbox Disabled", ""}

\* line 208 returning the fixed text whatever the last error was
ReturnedError_Fixed(error) == "All retry attempts failed"

\* line 208: error or "All retry attempts failed"
ReturnedError(error) ==
    IF error = "" THEN "All retry attempts failed" ELSE error

\* 2 * attempt for 2 ** attempt
Pow2_Twice(n) == 2 * n

\* 2 ** attempt
RECURSIVE Pow2(_)
Pow2(n) == IF n = 0 THEN 1 ELSE 2 * Pow2(n - 1)

\* _send_with_retry, lines 185-208: one pass of the loop body.  how is "ok"
\* (send_email returned success), "fail" (it returned an error) or "raise"
SendAttempt ==
    /\ pc = "send"
    /\ \E how \in {"ok", "fail", "raise"}, error \in SendErrors :
         /\ how = "ok" => error = ""
         /\ how = "raise" => error = "Connection timed out"
         /\ IF how = "ok"
            THEN /\ pc' = "delivered"
                 /\ trace' = Append(trace, <<"send", how, error>>)
                 /\ cur' = [cur EXCEPT !.gate = "delivered", !.error = ""]
                 /\ sent' = [k \in DOMAIN sent \cup {cur.request_id} |->
                               IF k = cur.request_id
                               THEN (IF k \in DOMAIN sent THEN sent[k] ELSE 0) + 1
                               ELSE sent[k]]
                 /\ UNCHANGED now
            ELSE IF cur.attempt < SendAttempts - 1
            THEN /\ pc' = "send"
                 /\ trace' = trace \o << <<"send", how, error>>,
                                         <<"sleep", Pow2(cur.attempt)>> >>
                 /\ now' = now + Pow2(cur.attempt)
                 /\ cur' = [cur EXCEPT !.attempt = cur.attempt + 1,
                                       !.error = error]
                 /\ UNCHANGED sent
            ELSE /\ pc' = "fail"
                 /\ trace' = Append(trace, <<"send", how, error>>)
                 /\ cur' = [cur EXCEPT
                              !.gate = "send",
                              !.attempt = cur.attempt + 1,
                              !.error = ReturnedError(error)]
                 /\ UNCHANGED <<now, sent>>
    /\ UNCHANGED <<cb, cache, retry_counts, db, queued, requeues,
                   published, deliveries, usedTags, limits, fresh>>
    /\ UNCHANGED <<breakerCallVars, rateCallVars, retryCallVars, startVars>>

\* run the calls of a block that ends the delivery: the k-th call raises
\* (k = 0: none does), and published tells whether a dead-letter publish
\* went through
RunBlock(script, k, is_published) ==
    /\ db' = ApplySave(db, cur.request_id, Executed(script, k))
    /\ cb' = ApplyBreaker(cb, Executed(script, k), now)
    /\ trace' = trace \o SendToDlq(Traced(script, k), is_published)
    /\ IF k = 0
       THEN pc' = "done" /\ UNCHANGED cur
       ELSE pc' = "except" /\ cur' = [cur EXCEPT !.exc = ExcOf(script[k])]
    /\ UNCHANGED <<now, cache, retry_counts, queued, requeues,
                   published, deliveries, usedTags, limits, fresh>>
    /\ UNCHANGED <<sent, breakerCallVars, rateCallVars, retryCallVars,
                   startVars>>

DlqOutcomes(script, k) ==
    IF Has(Executed(script, k), "dlq") THEN BOOLEAN ELSE {TRUE}

\* lines 155-168
MarkDelivered ==
    /\ pc = "delivered"
    /\ LET script == DeliveredScript(cur.request_id)
       IN  \E k \in {0} \cup RaisePoints(script) : RunBlock(script, k, TRUE)

\* lines 121-129
OptOut ==
    /\ pc = "optout"
    /\ LET script == OptOutScript(cur.request_id)
       IN  \E k \in {0} \cup RaisePoints(script) : RunBlock(script, k, TRUE)

\* _handle_failure, lines 224-239
HandleFailure ==
    /\ pc = "fail"
    /\ LET script == HandleFailureScript(cur.has_log, cur.error,
                                         cur.request_id, cur.message)
       IN  \E k \in {0} \cup RaisePoints(script) :
             \E is_published \in DlqOutcomes(script, k) :
               RunBlock(script, k, is_published)

\* the except clause, lines 172-183
HandleException ==
    /\ pc = "except"
    /\ LET r == IF Truthy(cur.message)
                THEN ShouldRetry(retry_counts, cur.tag)
                ELSE [ok |-> FALSE, rc |-> retry_counts]
           script == ExceptScript(cur.message, r.ok, cur.exc)
       IN  /\ retry_counts' = r.rc
           /\ cb' = ApplyBreaker(cb, script, now)
           /\ \E is_published \in DlqOutcomes(script, 0) :
                trace' = trace \o SendToDlq(script, is_published)
           /\ IF Has(script, "nack")
              THEN queued' = cur.body /\ requeues' = requeues + 1
              ELSE UNCHANGED <<queued, requeues>>
    /\ pc' = "done"
    /\ UNCHANGED <<now, cache, db, published, deliveries, usedTags,
                   limits, fresh, cur>>
    /\ UNCHANGED <<sent, breakerCallVars, rateCallVars, retryCallVars,
                   startVars>>

Elapses == {RecoveryTimeout - 1, RecoveryTimeout, RecoveryTimeout + 1}

Next ==
    \/ \E body \in Bodies : Publish(body)
    \/ \E elapsed \in Elapses : Tick(elapsed)
    \/ \E tag \in Tags : Receive(tag)
    \/ RateCheck
    \/ BreakerCheck
    \/ ValidateFields
    \/ CreateLog
    \/ GetUser
    \/ Render
    \/ SendAttempt
    \/ MarkDelivered
    \/ OptOut
    \/ HandleFailure
    \/ HandleException
    \/ Return

Spec == Init /\ [][Next]_vars

SpecRedelivery == InitRedelivery /\ [][Next]_vars

\* The worker after its first FailureThreshold deliveries, each of a body
\* that does not parse: json.loads raised, the except clause recorded a
\* breaker failure and acknowledged, and the third failure opened the
\* breaker.  MaxPublished more messages and deliveries follow.
InitTripped ==
    /\ now = 0
    /\ cb = [state |-> "OPEN", failure_count |-> FailureThreshold,
             last_failure_time |-> 0]
    /\ cache = << >>
    /\ retry_counts = << >>
    /\ db = << >>
    /\ queued = NoMsg
    /\ requeues = 0
    /\ published = FailureThreshold
    /\ deliveries = FailureThreshold
    /\ usedTags = 1..FailureThreshold
    /\ limits = [pub |-> FailureThreshold + MaxPublished,
                 del |-> FailureThreshold + MaxPublished]
    /\ fresh = TRUE
    /\ pc = "idle"
    /\ cur = NoCur
    /\ trace = << >>
    /\ sent = << >>
    /\ last_call = NoCall
    /\ run = NewRun(NewBreaker)
    /\ callers = [w \in Workers |-> NoCaller]
    /\ results = << >>
    /\ overlapped = {}
    /\ last_rate = NoRateCall
    /\ asked = [tag \in AskedTags |-> << >>]
    /\ boot = NoBoot

SpecTripped == InitTripped /\ [][Next]_vars

(***************************************************************************)
(* The breaker under any sequence of calls of its three methods.           *)
(***************************************************************************)
InitBreaker ==
    /\ Constructed
    /\ limits = [pub |-> 0, del |-> 0]

\* circuit_breaker.can_execute()
CallCanExecute ==
    /\ LET r == CanExecute(cb, now)
       IN  /\ cb' = r.cb
           /\ last_call' = [op |-> "can_execute", pre |-> cb, t |-> now,
                            ok |-> r.ok]
    /\ UNCHANGED <<now, cache, run, consumerVars, rateCallVars,
                   retryCallVars, startVars>>

\* circuit_breaker.record_success()
CallRecordSuccess ==
    /\ LET c == RecordSuccess(cb)
       IN  /\ cb' = c
           /\ run' = NewRun(c)
    /\ last_call' = [op |-> "record_success", pre |-> cb, t |-> now,
                     ok |-> TRUE]
    /\ UNCHANGED <<now, cache, consumerVars, rateCallVars,
                   retryCallVars, startVars>>

\* circuit_breaker.record_failure()
CallRecordFailure ==
    /\ cb.failure_count < MaxFailures
    /\ LET c == RecordFailure(cb, now)
       IN  /\ cb' = c
           /\ run' = [run EXCEPT
                        !.length = run.length + 1,
                        !.opened_at =
                            IF /\ run.opened_at = 0
                               /\ cb.state = "CLOSED"
                               /\ c.state = "OPEN"
                            THEN run.length + 1
                            ELSE run.opened_at]
    /\ last_call' = [op |-> "record_failure", pre |-> cb, t |-> now,
                     ok |-> TRUE]
    /\ UNCHANGED <<now, cache, consumerVars, rateCallVars,
                   retryCallVars, startVars>>

\* time passes between two calls, up to MaxClock
Wait(elapsed) ==
    /\ now < MaxClock
    /\ Tick(elapsed)

NextBreaker ==
    \/ CallCanExecute
    \/ CallRecordSuccess
    \/ CallRecordFailure
    \/ \E elapsed \in Elapses : Wait(elapsed)

SpecBreaker == InitBreaker /\ [][NextBreaker]_vars

(***************************************************************************)
(* check_rate_limit called by the workers that share the cache.  Between   *)
(* the cache.get of line 206 and the cache.set of line 212 of one worker   *)
(* the other workers run.                                                  *)
(***************************************************************************)
InitRate ==
    /\ Constructed
    /\ limits = [pub |-> 0, del |-> 0]

\* the calls of check_rate_limit begun so far
CallsBegun ==
    Cardinality({w \in Workers : callers[w].pc = "got"})
    + Cardinality({<<k, i>> \in (DOMAIN results) \X (1..MaxCalls) :
                      i \in DOMAIN results[k]})

\* lines 203-206: the key of the current hour is made and its counter read
RateGet(w) ==
    /\ callers[w].pc = "out"
    /\ CallsBegun < MaxCalls
    /\ LET key == RateKey("u1", now)
       IN  /\ callers' = [callers EXCEPT ![w] =
                            [pc |-> "got", key |-> key,
                             current_count |-> CacheGet(cache, key)]]
           /\ overlapped' =
                IF \E v \in Workers \ {w} :
                       callers[v].pc = "got" /\ callers[v].key = key
                THEN overlapped \cup {key} ELSE overlapped
    /\ UNCHANGED <<now, cb, cache, results, last_rate, consumerVars,
                   breakerCallVars, retryCallVars, startVars>>

\* lines 208-213: the limit test, and the counter written back
RateSet(w) ==
    /\ callers[w].pc = "got"
    /\ LET key == callers[w].key
           current_count == callers[w].current_count
           ok == ~Exceeded(current_count)
           before == IF key \in DOMAIN results THEN results[key] ELSE << >>
       IN  /\ cache' = IF ok THEN CacheSet(cache, key, current_count + 1)
                       ELSE cache
           /\ results' = [k \in DOMAIN results \cup {key} |->
                            IF k = key THEN Append(before, ok)
                            ELSE results[k]]
    /\ callers' = [callers EXCEPT ![w] = NoCaller]
    /\ last_rate' = [NoRateCall EXCEPT
                       !.op = "check_rate_limit",
                       !.key = callers[w].key,
                       !.before = cache,
                       !.ok = ~Exceeded(callers[w].current_count)]
    /\ UNCHANGED <<now, cb, overlapped, consumerVars, breakerCallVars,
                   retryCallVars, startVars>>

\* get_rate_limit_info, lines 215-226: one read of the cache
RateInfo(w) ==
    /\ callers[w].pc = "out"
    /\ last_rate' = [NoRateCall EXCEPT
                       !.op = "get_rate_limit_info",
                       !.key = RateKey("u1", now),
                       !.before = cache,
                       !.info = GetRateLimitInfo(cache, "u1", now)]
    /\ UNCHANGED <<now, cb, cache, callers, results, overlapped,
                   consumerVars, breakerCallVars, retryCallVars, startVars>>

\* the clock reaches the next hour
NextHour ==
    /\ CurrentHour(now) < MaxHour
    /\ now' = (CurrentHour(now) + 1) * SecondsPerHour
    /\ UNCHANGED <<cb, cache, consumerVars, breakerCallVars, rateCallVars,
                   retryCallVars, startVars>>

NextRate ==
    \/ \E w \in Workers : RateGet(w)
    \/ \E w \in Workers : RateSet(w)
    \/ \E w \in Workers : RateInfo(w)
    \/ NextHour

SpecRate == InitRate /\ [][NextRate]_vars

(***************************************************************************)
(* _should_retry under any sequence of calls.  The worker process has run  *)
(* for no time (retry_counts is empty) or for long enough that more than   *)
(* RetryCleanupSize tags are tracked.                                      *)
(***************************************************************************)
InitRetry ==
    /\ now = 0
    /\ cb = NewBreaker
    /\ cache = << >>
    /\ retry_counts \in {<< >>, FilledRetryCounts}
    /\ db = << >>
    /\ queued = NoMsg
    /\ requeues = 0
    /\ published = 0
    /\ deliveries = 0
    /\ usedTags = {}
    /\ limits = [pub |-> 0, del |-> 0]
    /\ fresh = TRUE
    /\ pc = "idle"
    /\ cur = NoCur
    /\ trace = << >>
    /\ sent = << >>
    /\ last_call = NoCall
    /\ run = NewRun(NewBreaker)
    /\ callers = [w \in Workers |-> NoCaller]
    /\ results = << >>
    /\ overlapped = {}
    /\ last_rate = NoRateCall
    /\ asked = [tag \in AskedTags |->
                  IF tag \in DOMAIN retry_counts THEN <<TRUE>> ELSE << >>]
    /\ boot = NoBoot

\* self._should_retry(tag)
CallShouldRetry(tag) ==
    /\ Len(asked[tag]) < MaxAsks
    /\ LET r == ShouldRetry(retry_counts, tag)
       IN  /\ retry_counts' = r.rc
           /\ asked' = [asked EXCEPT ![tag] = Append(asked[tag], r.ok)]
    /\ UNCHANGED <<now, cb, cache, db, queued, requeues, published,
                   deliveries, usedTags, limits, fresh, pc, cur, trace,
                   sent, breakerCallVars, rateCallVars, startVars>>

NextRetry == \E tag \in AskedTags : CallShouldRetry(tag)

SpecRetry == InitRetry /\ [][NextRetry]_vars

(***************************************************************************)
(* The start of the worker: Command.handle constructs the consumer and     *)
(* calls start_consuming, which calls connect.                             *)
(***************************************************************************)
InitStartup ==
    /\ Constructed
    /\ limits = [pub |-> 0, del |-> 0]

\* what an attempt to connect can raise: before self.connection is
\* assigned (the broker is not reachable), or after it (the channel or a
\* declaration is refused)
ConnectFailures == {"AMQPConnectionError", "ChannelClosedByBroker",
                    "ChannelWrongStateError"}

\* line 68 as "if True": a sleep follows every failed attempt
ConnectSleeps_Always(attempt) == TRUE

\* line 68: attempt < max_retries - 1
ConnectSleeps(attempt) == attempt < ConnectRetries - 1

\* Command.handle, lines 15-18, up to the call of connect
Handle ==
    /\ boot.pc = "handle"
    /\ boot' = [boot EXCEPT !.pc = "connect"]
    /\ UNCHANGED <<now, cb, cache, consumerVars, breakerCallVars,
                   rateCallVars, retryCallVars>>

\* connect, lines 28-71: one pass of the loop body
ConnectAttempt ==
    /\ boot.pc = "connect"
    /\ \/ /\ boot' = [boot EXCEPT !.pc = "consume", !.connection = TRUE]
          /\ UNCHANGED now
       \/ \E e \in ConnectFailures :
            LET failed == [boot EXCEPT
                             !.errors = Append(boot.errors, e),
                             !.connection =
                                 boot.connection \/ e # "AMQPConnectionError"]
            IN  IF ConnectSleeps(boot.attempt)
                THEN /\ now' = now + Pow2(boot.attempt)
                     /\ boot' = [failed EXCEPT
                                   !.sleeps = Append(boot.sleeps,
                                                     Pow2(boot.attempt)),
                                   !.attempt = boot.attempt + 1,
                                   !.pc = IF boot.attempt + 1 < ConnectRetries
                                          THEN "connect" ELSE "consume"]
                ELSE /\ boot' = [failed EXCEPT !.pc = "raised", !.raised = e]
                     /\ UNCHANGED now
    /\ UNCHANGED <<cb, cache, consumerVars, breakerCallVars, rateCallVars,
                   retryCallVars>>

\* start_consuming, lines 282-285: connect raised; the except clause logs,
\* closes the connection if there is one, and start_consuming returns
CatchStartup ==
    /\ boot.pc = "raised"
    /\ boot' = [boot EXCEPT !.pc = "returned", !.outcome = "returned",
                            !.connection = FALSE]
    /\ UNCHANGED <<now, cb, cache, consumerVars, breakerCallVars,
                   rateCallVars, retryCallVars>>

\* start_consuming, lines 273-285: the consumer runs until the transport
\* raises, which the except clause swallows, or until KeyboardInterrupt,
\* which it does not catch and Command.handle answers with stop_consuming
Consume ==
    /\ boot.pc = "consume"
    /\ \/ boot' = [boot EXCEPT !.pc = "returned", !.outcome = "returned",
                               !.connection = FALSE]
       \/ boot' = [boot EXCEPT !.pc = "stopped", !.outcome = "interrupted",
                               !.connection = FALSE]
    /\ UNCHANGED <<now, cb, cache, consumerVars, breakerCallVars,
                   rateCallVars, retryCallVars>>

\* Command.handle: start_consuming returned, and handle returns as well
HandleReturns ==
    /\ boot.pc = "returned"
    /\ boot' = [boot EXCEPT !.pc = "exited"]
    /\ UNCHANGED <<now, cb, cache, consumerVars, breakerCallVars,
                   rateCallVars, retryCallVars>>

NextStartup ==
    \/ Handle
    \/ ConnectAttempt
    \/ CatchStartup
    \/ Consume
    \/ HandleReturns

SpecStartup == InitStartup /\ [][NextStartup]_vars

(***************************************************************************)
(* Properties.  A delivery is over in the state pc = "done": trace then    *)
(* holds every call process_message made for it, in order.                 *)
(***************************************************************************)
Done == pc = "done"

\* no call made for the delivery raised
NoRaise == ~Has(trace, "raise")

Acks == Count(trace, "ack")

Nacks == Count(trace, "nack")

\* the dead-letter router was invoked (the publish went through or failed)
DlqCalls == Count(trace, "dlq") + Count(trace, "dlq_failed")

\* the status collaborator was called once, with these arguments, and
\* before the acknowledgment
StatusOnce(request_id, status, error) ==
    /\ Count(trace, "status") = 1
    /\ \E i \in DOMAIN trace :
         /\ trace[i] = StatusEv(request_id, status, error)
         /\ \A j \in DOMAIN trace : trace[j][1] = "ack" => i < j

HasRow(request_id, status, error_message) ==
    /\ request_id \in DOMAIN db
    /\ db[request_id] = [status |-> status, error_message |-> error_message]

\* _should_retry's count for the tag of the running delivery
RetryCount == IF cur.tag \in DOMAIN retry_counts
              THEN retry_counts[cur.tag] ELSE 0

\* C1: a delivery that passed every gate and whose send succeeded on one of
\* the up-to-3 attempts, with the audit store and the status update
\* returning normally, ends with the record delivered, the status
\* collaborator called once with (request_id, 'delivered'), a breaker
\* success recorded, and the message acknowledged; it is neither requeued
\* nor dead-lettered.
C1_SuccessDelivered ==
    (Done /\ cur.gate = "delivered" /\ NoRaise) =>
        /\ {"user_id", "template_code", "variables"} \subseteq cur.message.fields
        /\ Count(trace, "send") \in 1..SendAttempts
        /\ HasRow(cur.request_id, "delivered", "")
        /\ StatusOnce(cur.request_id, "delivered", "")
        /\ Count(trace, "record_success") = 1
        /\ Count(trace, "record_failure") = 0
        /\ cb.state = "CLOSED"
        /\ Acks = 1
        /\ Nacks = 0
        /\ DlqCalls = 0
        /\ queued = NoMsg

\* C1 witness: the send succeeded on the third attempt, on a trial call of
\* a HALF_OPEN breaker that the success closed
C1_Witness ==
    /\ Done /\ cur.gate = "delivered" /\ NoRaise
    /\ Count(trace, "send") = SendAttempts
    /\ now > RecoveryTimeout
    /\ cb.failure_count = 0

\* C2: when every delivery carries a tag of its own, a message is requeued
\* at most MaxRetries times before it reaches a terminal disposition.
C2_RequeueBounded == fresh => requeues <= MaxRetries

\* C3: one call of process_message issues exactly one acknowledgment action
\* for its delivery, basic_ack or basic_nack with requeue, as its last
\* call, whatever the collaborators did: none before the delivery is over,
\* one when it is, and a nacked message is back in the queue.
C3_ExactlyOneAck ==
    /\ Acks + Nacks = (IF Done THEN 1 ELSE 0)
    /\ Done => /\ trace[Len(trace)][1] \in {"ack", "nack"}
               /\ (Nacks = 1) = (queued = cur.body)

\* C3 witness: a delivery in which a collaborator raised, the redelivery
\* bound was exhausted and the dead-letter publish failed
C3_Witness ==
    /\ Done /\ Has(trace, "raise") /\ Has(trace, "dlq_failed")
    /\ RetryCount = MaxRetries

\* C4: a message for a user who has disabled email notifications ends,
\* when the audit store and the status update return normally, with its
\* record failed with the opt-out reason, the status collaborator called
\* once with 'failed', and the message acknowledged; it is not
\* dead-lettered, not requeued, and no mail send is attempted for it.
C4_OptOut ==
    /\ cur.gate = "optout" => Count(trace, "send") = 0
    /\ (Done /\ cur.gate = "optout" /\ NoRaise) =>
          /\ HasRow(cur.request_id, "failed", OptOutMessage)
          /\ StatusOnce(cur.request_id, "failed", OptOutMessage)
          /\ Acks = 1
          /\ Nacks = 0
          /\ DlqCalls = 0
          /\ queued = NoMsg

C4_Witness == Done /\ cur.gate = "optout" /\ NoRaise /\ deliveries > 1

LacksRequiredField ==
    /\ cur.message.kind = "dict"
    /\ ~({"user_id", "template_code", "variables"} \subseteq cur.message.fields)

StageError(gate) ==
    CASE gate = "user" -> {"Failed to get user data"}
      [] gate = "recipient" -> {"User has no email address"}
      [] gate = "render" -> {"Failed to render email template"}
      [] gate = "send" -> (SendErrors \ {""}) \cup {"All retry attempts failed"}

\* C6: a failure at a gate reached after the record was created (user not
\* found, no address, render returned nothing, send failed after all
\* attempts) ends, when the audit store and the status update return
\* normally, with the record failed with that stage's error message, the
\* status collaborator called once with (request_id, 'failed', error), and
\* the message acknowledged.
C6_GateFailure ==
    (Done /\ cur.gate \in {"user", "recipient", "render", "send"} /\ NoRaise) =>
        /\ cur.error \in StageError(cur.gate)
        /\ HasRow(cur.request_id, "failed", cur.error)
        /\ StatusOnce(cur.request_id, "failed", cur.error)
        /\ cur.gate = "send" => Count(trace, "send") = SendAttempts
        /\ Acks = 1
        /\ Nacks = 0
        /\ queued = NoMsg

C6_Witness ==
    /\ Done /\ cur.gate = "send" /\ NoRaise
    /\ cur.error = "All retry attempts failed"

\* C7: when the send fails on all 3 attempts with a transient error and the
\* redelivery bound is already exhausted for the delivery tag, the record is
\* marked failed, the dead-letter router is invoked with the error, and the
\* message is acknowledged.
C7_ExhaustedDeadLetters ==
    (/\ Done /\ cur.gate = "send" /\ NoRaise
     /\ cur.error = "Connection timed out"
     /\ RetryCount >= MaxRetries) =>
        /\ HasRow(cur.request_id, "failed", cur.error)
        /\ DlqCalls = 1
        /\ Acks = 1

\* C8: when the send fails on all attempts with a transient error and the
\* redelivery count of the delivery tag is below the bound, the message is
\* negatively acknowledged with requeue, not acknowledged.
C8_TransientRequeued ==
    (/\ Done /\ cur.gate = "send" /\ NoRaise
     /\ cur.error = "Connection timed out"
     /\ RetryCount < MaxRetries) =>
        /\ Nacks = 1
        /\ Acks = 0

\* C9: on every path that ends in an acknowledgment the status collaborator
\* is called exactly once, with the final status, before the
\* acknowledgment is issued.
C9_StatusBeforeAck ==
    (Done /\ Acks = 1) =>
        \E status \in {"delivered", "failed"}, error \in {"", cur.error, OptOutMessage} :
            StatusOnce(cur.request_id, status, error)

\* C10: record creation for a request id that already has a record does
\* not fail on uniqueness: the delivery goes on to the next stages.
C10_CreateIsUpsert == cur.duplicate => cur.exc # "IntegrityError"

\* C11: whenever a delivery is acknowledged after its audit record was
\* created, the record's status is delivered or failed and not pending,
\* whatever the collaborators did after the record was created.
C11_AckedRecordFinal ==
    (Done /\ Acks = 1 /\ cur.has_log) =>
        db[cur.request_id].status \in {"delivered", "failed"}

(***************************************************************************)
(* The breaker, called directly.  cb is always the breaker the last call   *)
(* left: last_call.pre is the breaker that call found.                     *)
(***************************************************************************)
\* C12, as claimed: from any CLOSED breaker a run of record_failure calls
\* with no success in between opens the breaker exactly on its
\* FailureThreshold-th failure and leaves it CLOSED on every earlier one.
C12_OpensOnThresholdOfRun ==
    (run.start.state = "CLOSED" /\ run.length >= 1) =>
        IF run.length < FailureThreshold
        THEN cb.state = "CLOSED" /\ run.opened_at = 0
        ELSE run.opened_at = FailureThreshold

\* C12, amended: from a CLOSED breaker whose failure count is c, a run of
\* record_failure calls with no success in between opens the breaker exactly
\* on the failure that brings the count to FailureThreshold, the
\* (FailureThreshold - c)-th of the run, and leaves it CLOSED on every
\* earlier one; for c = 0 that is the FailureThreshold-th failure.
C12_OpensOnCount ==
    (run.start.state = "CLOSED" /\ run.length >= 1) =>
        /\ run.start.failure_count < FailureThreshold
        /\ IF run.length < FailureThreshold - run.start.failure_count
           THEN cb.state = "CLOSED" /\ run.opened_at = 0
           ELSE run.opened_at = FailureThreshold - run.start.failure_count

\* C12 witness: a run that began on a CLOSED breaker with one failure left
\* over and opened it on its second failure
C12_Witness ==
    /\ run.start.state = "CLOSED"
    /\ run.start.failure_count = 1
    /\ run.opened_at = FailureThreshold - 1

\* C13: can_execute on an OPEN breaker returns false and leaves it OPEN when
\* less than RecoveryTimeout has elapsed since the last failure, and returns
\* true and moves it to HALF_OPEN when RecoveryTimeout or more has elapsed,
\* exactly RecoveryTimeout included.
C13_RecoveryInclusive ==
    (last_call.op = "can_execute" /\ last_call.pre.state = "OPEN") =>
        IF last_call.t - last_call.pre.last_failure_time >= RecoveryTimeout
        THEN last_call.ok /\ cb.state = "HALF_OPEN"
        ELSE ~last_call.ok /\ cb.state = "OPEN"

\* C14: once the breaker is HALF_OPEN, no further delivery passes the
\* availability check before the breaker has left HALF_OPEN: a can_execute
\* that finds the breaker HALF_OPEN does not admit the call.
C14_OneTrial ==
    \A i \in DOMAIN trace :
        (trace[i][1] = "can_execute" /\ trace[i][2] = "HALF_OPEN")
            => ~trace[i][3]

\* C15: on a HALF_OPEN breaker one record_success gives CLOSED with
\* failure_count 0, and one record_failure gives OPEN with
\* last_failure_time the time of that failure.
C15_HalfOpenOutcome ==
    /\ (last_call.op = "record_success" /\ last_call.pre.state = "HALF_OPEN")
          => (cb.state = "CLOSED" /\ cb.failure_count = 0)
    /\ (last_call.op = "record_failure" /\ last_call.pre.state = "HALF_OPEN")
          => (cb.state = "OPEN" /\ cb.last_failure_time = last_call.t)

\* C15 witness: a trial failed and reopened the breaker, and the next trial
\* succeeded and closed it from a count above the threshold
C15_Witness ==
    /\ last_call.op = "record_success"
    /\ last_call.pre.state = "HALF_OPEN"
    /\ last_call.pre.failure_count > FailureThreshold
    /\ last_call.pre.last_failure_time > 0

\* C16: whatever method is called in whatever state, a change of state is
\* CLOSED to OPEN, OPEN to HALF_OPEN, HALF_OPEN to CLOSED or HALF_OPEN to
\* OPEN; never CLOSED to HALF_OPEN nor OPEN to CLOSED.
C16_Transitions ==
    last_call.pre.state # cb.state =>
        <<last_call.pre.state, cb.state>> \in
            {<<"CLOSED", "OPEN">>, <<"OPEN", "HALF_OPEN">>,
             <<"HALF_OPEN", "CLOSED">>, <<"HALF_OPEN", "OPEN">>}

\* C16 witness: record_success was called on an OPEN breaker
C16_Witness ==
    /\ last_call.op = "record_success"
    /\ last_call.pre.state = "OPEN"

\* C17, as claimed: failure_count goes from a positive value to 0 only by
\* the record_success that takes a HALF_OPEN breaker to CLOSED.
C17_ZeroOnlyOnRecovery ==
    (last_call.pre.failure_count > 0 /\ cb.failure_count = 0) =>
        /\ last_call.op = "record_success"
        /\ last_call.pre.state = "HALF_OPEN"
        /\ cb.state = "CLOSED"

\* C17, amended: failure_count goes from a positive value to 0 only by
\* record_success: by the recovery that takes a HALF_OPEN breaker to CLOSED,
\* or by a success on a CLOSED breaker whose count is 1, which the
\* decrement takes to 0.  can_execute and record_failure never do.
C17_ZeroOnlyBySuccess ==
    (last_call.pre.failure_count > 0 /\ cb.failure_count = 0) =>
        /\ last_call.op = "record_success"
        /\ \/ last_call.pre.state = "HALF_OPEN" /\ cb.state = "CLOSED"
           \/ /\ last_call.pre.state = "CLOSED"
              /\ last_call.pre.failure_count = 1
              /\ cb.state = "CLOSED"

\* C17 witness: a success on a CLOSED breaker took the count from 1 to 0
C17_Witness ==
    /\ last_call.op = "record_success"
    /\ last_call.pre.state = "CLOSED"
    /\ last_call.pre.failure_count = 1
    /\ cb.failure_count = 0

\* C31: record_success on a CLOSED breaker leaves the state CLOSED and sets
\* failure_count to max(0, failure_count - 1), leaving last_failure_time
\* alone; record_success on an OPEN breaker changes nothing.
C31_SuccessClosedOpen ==
    /\ (last_call.op = "record_success" /\ last_call.pre.state = "CLOSED") =>
          cb = [last_call.pre EXCEPT
                  !.failure_count =
                      IF last_call.pre.failure_count >= 1
                      THEN last_call.pre.failure_count - 1 ELSE 0]
    /\ (last_call.op = "record_success" /\ last_call.pre.state = "OPEN") =>
          cb = last_call.pre

\* C31 witness: a success on a CLOSED breaker that had recorded two
\* failures, the later of them after the clock had moved
C31_Witness ==
    /\ last_call.op = "record_success"
    /\ last_call.pre.state = "CLOSED"
    /\ last_call.pre.failure_count = 2
    /\ cb.failure_count = 1
    /\ cb.last_failure_time > 0

\* C34: in every state the breaker reaches, failure_count >= 0; a CLOSED
\* breaker has failure_count < FailureThreshold; an OPEN or HALF_OPEN
\* breaker has its last_failure_time set, to a time that has been; so
\* can_execute on an OPEN breaker never reads an unset last_failure_time.
C34_BreakerInvariant ==
    /\ cb.state \in {"CLOSED", "OPEN", "HALF_OPEN"}
    /\ cb.failure_count >= 0
    /\ cb.state = "CLOSED" => cb.failure_count < FailureThreshold
    /\ cb.state \in {"OPEN", "HALF_OPEN"} =>
          /\ cb.last_failure_time # NoTime
          /\ cb.last_failure_time \in 0..now
    /\ (last_call.op = "can_execute" /\ last_call.pre.state = "OPEN") =>
          last_call.pre.last_failure_time # NoTime

\* C34 witness: can_execute read the last failure time of an OPEN breaker
\* that had failed a trial, and moved it to HALF_OPEN
C34_Witness ==
    /\ last_call.op = "can_execute"
    /\ last_call.pre.state = "OPEN"
    /\ last_call.pre.failure_count > FailureThreshold
    /\ last_call.pre.last_failure_time > 0
    /\ cb.state = "HALF_OPEN"

(***************************************************************************)
(* The rate limiter, called directly by the workers.                       *)
(***************************************************************************)
\* the calls keyed to a bucket that returned True
Accepted(key) == Cardinality({i \in DOMAIN results[key] : results[key][i]})

\* C18: when the calls of check_rate_limit for one user within an hour
\* bucket follow one another without overlap, the first EMAIL_RATE_LIMIT of
\* them return True and every later one returns False; the count starts
\* anew in the next hour bucket, whose first call returns True.
C18_SequentialLimit ==
    \A key \in DOMAIN results :
        key \notin overlapped =>
            \A i \in DOMAIN results[key] :
                results[key][i] = (i <= EMAIL_RATE_LIMIT)

\* C18 witness: a bucket that rejected a call, and a call in the next
\* bucket; no calls overlapped in either
C18_Witness ==
    \E k1 \in DOMAIN results, k2 \in DOMAIN results :
        /\ k1 \notin overlapped /\ k2 \notin overlapped
        /\ Len(results[k1]) > EMAIL_RATE_LIMIT
        /\ k2[2] = k1[2] + 1
        /\ results[k2][1]

\* C19: under every interleaving of the workers' calls, at most
\* EMAIL_RATE_LIMIT calls are accepted in one hour bucket.
C19_AtMostLimit ==
    \A key \in DOMAIN results : Accepted(key) <= EMAIL_RATE_LIMIT

\* C20: under every interleaving of the workers' calls, the counter stored
\* for a rate window never exceeds EMAIL_RATE_LIMIT + 1.
C20_CounterBound ==
    \A key \in DOMAIN cache : cache[key] <= EMAIL_RATE_LIMIT + 1

\* C20 witness: overlapping calls were accepted beyond the limit, and the
\* counter of their bucket stands at the limit
C20_Witness ==
    \E key \in DOMAIN results :
        /\ key \in overlapped
        /\ Accepted(key) > EMAIL_RATE_LIMIT
        /\ CacheGet(cache, key) = EMAIL_RATE_LIMIT

\* C21: a check_rate_limit call that rejects, and every get_rate_limit_info
\* call, leave the counters of the cache as they found them;
\* get_rate_limit_info returns the window's current count, the limit, and
\* remaining = max(0, limit - current count).
C21_ReadOnly ==
    /\ (last_rate.op = "check_rate_limit" /\ ~last_rate.ok) =>
          cache = last_rate.before
    /\ last_rate.op = "get_rate_limit_info" =>
          /\ cache = last_rate.before
          /\ last_rate.info.current_count = CacheGet(cache, last_rate.key)
          /\ last_rate.info.limit = EMAIL_RATE_LIMIT
          /\ last_rate.info.remaining =
                (IF EMAIL_RATE_LIMIT > last_rate.info.current_count
                 THEN EMAIL_RATE_LIMIT - last_rate.info.current_count
                 ELSE 0)

\* C21 witness: get_rate_limit_info on a window that is full and has
\* rejected a call
C21_Witness ==
    /\ last_rate.op = "get_rate_limit_info"
    /\ last_rate.info.remaining = 0
    /\ last_rate.key \in DOMAIN results
    /\ \E i \in DOMAIN results[last_rate.key] : ~results[last_rate.key][i]

(***************************************************************************)
(* _send_with_retry, read off the trace of the delivery.                   *)
(***************************************************************************)
\* 1, 2, 4, 8, ...: the powers of two, by table
Pow2_Exact(n) == <<1, 2, 4, 8, 16, 32>>[n + 1]

IsSend(e) == e[1] = "send"

IsSleep(e) == e[1] = "sleep"

IsSendOrSleep(e) == IsSend(e) \/ IsSleep(e)

\* the send attempts of the delivery: <<"send", outcome, error text>>
Sends == SelectSeq(trace, IsSend)

\* the delays slept between them
Delays == [i \in DOMAIN SelectSeq(trace, IsSleep) |->
              SelectSeq(trace, IsSleep)[i][2]]

\* C22: _send_with_retry makes at most SendAttempts attempts; a successful
\* attempt is the last one and the call returns success without an error;
\* when every attempt fails, by a returned failure or a raised error in any
\* mix, exactly SendAttempts attempts are made and the call returns failure
\* with the error of the last attempt (the text "All retry attempts
\* failed" when that error is empty).
C22_SendAttempts ==
    /\ Len(Sends) <= SendAttempts
    /\ \A i \in DOMAIN Sends : Sends[i][2] = "ok" => i = Len(Sends)
    /\ pc = "send" => (Len(Sends) < SendAttempts /\ Len(Sends) = cur.attempt)
    /\ cur.gate = "delivered" =>
          /\ Sends[Len(Sends)][2] = "ok"
          /\ cur.error = ""
    /\ cur.gate = "send" =>
          /\ Len(Sends) = SendAttempts
          /\ \A i \in DOMAIN Sends : Sends[i][2] \in {"fail", "raise"}
          /\ cur.error = (IF Sends[SendAttempts][3] = ""
                          THEN "All retry attempts failed"
                          ELSE Sends[SendAttempts][3])

\* C22 witness: three failed attempts, returned and raised, whose last
\* error differs from the first
C22_Witness ==
    /\ Done /\ cur.gate = "send"
    /\ Sends[1][2] = "fail" /\ Sends[2][2] = "raise"
    /\ Sends[1][3] = "Mailbox Disabled"
    /\ cur.error = "Connection timed out"

\* C23, as claimed: on persistent send failure the delays slept between
\* attempts are 1, 2, 4, and none is slept after the final attempt.
C23_Backoff124 ==
    cur.gate = "send" =>
        /\ Delays = <<1, 2, 4>>
        /\ IsSend(SelectSeq(trace, IsSendOrSleep)[Len(Delays) + Len(Sends)])

\* C23, amended: the delays slept are 1 after the first failed attempt and
\* 2 after the second; the third attempt is the final one and no delay is
\* slept after it, so on persistent failure the delays are 1, 2.
C23_Backoff12 ==
    /\ \A i \in DOMAIN Delays : Delays[i] = Pow2_Exact(i - 1)
    /\ Len(Delays) =
          (IF cur.gate = "delivered" \/ Len(Sends) = SendAttempts
           THEN Len(Sends) - 1 ELSE Len(Sends))
    /\ cur.gate = "send" =>
          /\ Delays = <<1, 2>>
          /\ IsSend(SelectSeq(trace, IsSendOrSleep)[Len(Delays) + Len(Sends)])

\* C23 witness: a delivery whose three send attempts all failed
C23_Witness == Done /\ cur.gate = "send" /\ Len(Delays) = SendAttempts - 1

\* C24: whatever the sequence of _should_retry calls and the mix of tags,
\* each tag is answered True on its first MaxRetries calls and False on
\* every later call.
C24_ThreePerTag ==
    \A tag \in AskedTags :
        \A i \in DOMAIN asked[tag] : asked[tag][i] = (i <= MaxRetries)

\* C25: the tracker is bounded: it never holds more tags than the cleanup
\* size allows, and the entry of a tag that has reached the redelivery
\* bound is discarded.
C25_TrackerBounded ==
    /\ Cardinality(DOMAIN retry_counts) <= RetryCleanupSize + 1
    /\ \A tag \in DOMAIN retry_counts : retry_counts[tag] < MaxRetries

\* C26: a failed dead-letter publish is swallowed: on every path that
\* invokes the dead-letter router, whether the publish went through or
\* failed, nothing is raised after it and the message is acknowledged
\* afterwards, as the last call of the delivery.
C26_DlqFailureSwallowed ==
    \A i \in DOMAIN trace :
        trace[i][1] \in {"dlq", "dlq_failed"} =>
            /\ Done
            /\ i < Len(trace)
            /\ trace[Len(trace)] = <<"ack">>
            /\ \A j \in (i + 1)..Len(trace) : trace[j][1] # "raise"
            /\ Acks = 1
            /\ Nacks = 0

\* C26 witness: _handle_failure dead-lettered a message without address and
\* the publish failed
C26_Witness ==
    /\ Done /\ cur.gate = "recipient"
    /\ Has(trace, "dlq_failed")

\* C27: when every attempt to connect fails at startup, start_consuming
\* does not return normally: the failure reaches its caller.
C27_ConnectFailureSurfaces ==
    Len(boot.errors) = ConnectRetries =>
        (boot.outcome # "returned" /\ boot.pc # "exited")

\* C28: connect makes at most ConnectRetries attempts, stops at the first
\* that succeeds, sleeps 1, 2, 4, 8 after the first four failed attempts,
\* and after the fifth failed attempt raises that attempt's error without
\* another sleep.
C28_ConnectBounded ==
    /\ Len(boot.errors) <= ConnectRetries
    /\ boot.pc = "connect" => Len(boot.errors) = boot.attempt
    /\ boot.sleeps =
          [i \in 1..(IF Len(boot.errors) < ConnectRetries
                     THEN Len(boot.errors) ELSE ConnectRetries - 1) |->
              Pow2_Exact(i - 1)]
    /\ boot.pc = "consume" => Len(boot.errors) < ConnectRetries
    /\ (boot.raised # "") = (Len(boot.errors) = ConnectRetries)
    /\ boot.pc = "raised" =>
          /\ boot.sleeps = <<1, 2, 4, 8>>
          /\ boot.raised = boot.errors[ConnectRetries]

\* C28 witness: five attempts failed, the last otherwise than the first
C28_Witness ==
    /\ boot.pc = "raised"
    /\ boot.errors[1] # boot.errors[ConnectRetries]

(***************************************************************************)
(* The order of the pipeline, read off the trace of the delivery.          *)
(***************************************************************************)
\* the collaborator calls of the pipeline, in the order of the stages
StageCalls == <<"check_rate_limit", "can_execute", "create", "get_user_data",
                "render_template", "send">>

IsStage(e) == \E r \in DOMAIN StageCalls : StageCalls[r] = e[1]

Rank(e) == CHOOSE r \in DOMAIN StageCalls : StageCalls[r] = e[1]

\* the stage calls the delivery has made
Stages == SelectSeq(trace, IsStage)

\* the call answered that the message may not go on
Rejects(e) ==
    \/ e[1] \in {"check_rate_limit", "get_user_data", "render_template"} /\ ~e[2]
    \/ e[1] = "can_execute" /\ ~e[3]

\* C29: the stages run in the order rate check, availability check, field
\* validation, record creation, user resolution, preference check,
\* recipient resolution, render, send, each one only after all earlier
\* ones; once a gate rejects no later stage's collaborator is called; and a
\* send is attempted only for a message with all required fields whose
\* user was found with notifications enabled and an address.
C29_GateOrder ==
    /\ \A i \in DOMAIN Stages :
          /\ Rank(Stages[i]) = (IF i < Len(StageCalls) THEN i ELSE Len(StageCalls))
          /\ Rejects(Stages[i]) => i = Len(Stages)
    /\ cur.gate = "rate" => Len(Stages) = 1
    /\ cur.gate = "breaker" => Len(Stages) = 2
    /\ cur.gate = "validate" => Len(Stages) = 2
    /\ cur.gate \in {"user", "optout", "recipient"} => Len(Stages) = 4
    /\ cur.gate = "render" => Len(Stages) = 5
    /\ Has(trace, "create") =>
          {"user_id", "template_code", "variables"} \subseteq cur.message.fields
    /\ Has(trace, "send") =>
          /\ {"user_id", "template_code", "variables"} \subseteq cur.message.fields
          /\ cur.has_log
          /\ cur.recipient_email # ""
          /\ Len(Stages) >= Len(StageCalls)

\* C29 witness: the render gate rejected a message that had passed every
\* earlier gate
C29_Witness ==
    /\ Done /\ cur.gate = "render"
    /\ Stages[5] = <<"render_template", FALSE>>

\* C30: a message rejected by the rate limiter, by the breaker, by field
\* validation, by user or recipient resolution or by the render leaves the
\* breaker's failure count and last failure time as they were: no failure
\* is recorded for it.
C30_BreakerOnlyOnSend ==
    (/\ Done /\ NoRaise
     /\ cur.gate \in {"rate", "breaker", "validate", "user", "recipient",
                      "render"}) =>
        Count(trace, "record_failure") = 0

(***************************************************************************)
(* The dead-letter decision of _handle_failure.                            *)
(***************************************************************************)
\* the gates whose rejection is handed to _handle_failure
FailureGates == {"rate", "breaker", "validate", "user", "recipient",
                 "render", "send"}

\* of the error texts _handle_failure is given, those that hold
\* 'permanent', 'disabled' or 'no email' in some mix of cases
PolicyTexts == {"User has no email address", "Mailbox Disabled"}

\* C32: a failure handled by _handle_failure, when the audit store and the
\* status update return normally, invokes the dead-letter router, once and
\* with the error text, if and only if the message is present and the text
\* holds 'permanent', 'disabled' or 'no email' in any mix of cases; so a
\* rate-limit rejection, a breaker rejection, a missing field, a user not
\* found and a render failure are acknowledged without a dead-letter, a
\* missing recipient address is dead-lettered, and all are acknowledged.
C32_DlqPolicy ==
    (Done /\ NoRaise /\ cur.gate \in FailureGates) =>
        /\ Acks = 1
        /\ Nacks = 0
        /\ DlqCalls = (IF cur.message.kind = "dict" /\ cur.error \in PolicyTexts
                       THEN 1 ELSE 0)
        /\ \A i \in DOMAIN trace :
              trace[i][1] \in {"dlq", "dlq_failed"} => trace[i][2] = cur.error
        /\ cur.gate \in {"rate", "breaker", "validate", "user", "render"} =>
              DlqCalls = 0
        /\ cur.gate = "recipient" => DlqCalls = 1
        /\ cur.gate = "send" => (DlqCalls = 1) = (cur.error = "Mailbox Disabled")

\* C32 witness: the send failed three times, the last time with a text
\* that holds "Disabled" with a capital, and the message was dead-lettered
C32_Witness ==
    /\ Done /\ NoRaise /\ cur.gate = "send"
    /\ cur.error = "Mailbox Disabled"
    /\ trace[Len(trace) - 1] = DlqEv("Mailbox Disabled")

(***************************************************************************)
(* Recovery of the breaker while messages keep arriving.  In SpecTripped   *)
(* the breaker opened at time 0.                                           *)
(***************************************************************************)
\* the delivery has just asked can_execute, and the breaker it asked was OPEN
AskedOpenBreaker ==
    /\ trace # << >>
    /\ trace[Len(trace)][1] = "can_execute"
    /\ trace[Len(trace)][2] = "OPEN"

\* C33: the breaker opened at time 0 and no send has failed since.  Every
\* failure recorded since then was stamped before RecoveryTimeout, so no
\* earlier message was processed at or after RecoveryTimeout; the message
\* processed now, at or after RecoveryTimeout, is admitted past the
\* availability check, whatever was rejected in between.
C33_RecoversUnderTraffic ==
    (/\ AskedOpenBreaker
     /\ cb.last_failure_time < RecoveryTimeout
     /\ now >= RecoveryTimeout) =>
        trace[Len(trace)][3]

\* the same, for a message processed more than RecoveryTimeout after the
\* breaker opened: the comparison at the exact timeout plays no part
C33_RecoversLater ==
    (/\ AskedOpenBreaker
     /\ cb.last_failure_time < RecoveryTimeout
     /\ now > RecoveryTimeout) =>
        trace[Len(trace)][3]

(***************************************************************************)
(* Mail sends over all deliveries of a message.                            *)
(***************************************************************************)
\* C35: over all deliveries and redeliveries of a message that carries a
\* request_id, at most one mail send succeeds for that request_id; a
\* redelivery after a delivery whose send succeeded and which failed before
\* the acknowledgment sends nothing.  The audit table keeps its rows and
\* refuses a second row for a request_id.
C35_SendAtMostOnce ==
    /\ \A id \in DOMAIN sent : sent[id] <= 1
    /\ \A id \in DOMAIN sent : id \in DOMAIN db
    /\ (cur.duplicate /\ cur.request_id \in DOMAIN sent) =>
          ~Has(trace, "send")

\* C35 witness: the send of an earlier delivery succeeded, the save of the
\* delivered status raised and the message was requeued; this redelivery
\* was refused a second record and is over without a send
C35_Witness ==
    /\ Done
    /\ "request_id" \in cur.message.fields
    /\ cur.duplicate
    /\ cur.request_id \in DOMAIN sent
    /\ sent[cur.request_id] = 1
    /\ db[cur.request_id].status = "pending"

====
